---- MODULE Spec2Model ----
(***************************************************************************)
(* Model of src/services/browser/BrowserSession.ts: the browser session    *)
(* controller (launchBrowser, closeBrowser, doAction and the five actions  *)
(* built on it).                                                           *)
(*                                                                         *)
(* Program state is the fields of BrowserSession.  The puppeteer objects   *)
(* the fields point to are modelled by what the controller can observe or  *)
(* cause: whether a handle's connection is open, whether the process it    *)
(* launched is alive, whether the page can still be driven, which         *)
(* console/pageerror listener pairs are registered on the page object.     *)
(* Strings built by concatenation are sequences of fragments; a coordinate *)
(* string is a sequence of one-character strings.                          *)
(*                                                                         *)
(* Spec is the session as a whole, one step per awaited stage of a call.   *)
(* EffectSpec takes one navigateToUrl or click effect apart, down to the   *)
(* polls of waitTillHTMLStable; TailSpec does the same for the wait for    *)
(* console inactivity and the screenshot that end doAction.                *)
(***************************************************************************)
EXTENDS Integers, Sequences, FiniteSets, TLC

VARIABLES
    browser,               \* this.browser  (line 12) and the state of the object behind it
    page,                  \* this.page     (line 13) and the state of the object behind it
    currentMousePosition,  \* line 14: <<>> is undefined, <<c>> is the string c
    isInteractive,         \* line 15
    browserPort,           \* line 16
    pc,                    \* position of the doAction call in flight, "idle" if none
    call,                  \* the call that is in flight or that returned last
    logs,                  \* doAction's local array `logs` (line 126)
    result,                \* what the last call returned or threw
    orphans,               \* live browser processes launched by the session that no field refers to
    remoteKilled,          \* whether the controller terminated a remote browser it was attached to
    closedSince,           \* history: closeBrowser returned and no launchBrowser succeeded since
    delivered,             \* history: what happened while the listeners of the call in flight were registered
    efx,                   \* an effect of navigateToUrl or click taken step by step (lines 177-245)
    tail                   \* the end of doAction taken step by step (lines 155-174)

\* the session: what Spec is about
session == <<browser, page, currentMousePosition, isInteractive, browserPort,
             pc, call, logs, result, orphans, remoteKilled, closedSince, delivered>>

vars == <<browser, page, currentMousePosition, isInteractive, browserPort,
          pc, call, logs, result, orphans, remoteKilled, closedSince, delivered,
          efx, tail>>

----------------------------------------------------------------------------
(* Bounds *)

MaxOrphans == 1      \* launches stop once this many processes were leaked
MaxEvents == 2       \* console/pageerror events the browser delivers during one action

----------------------------------------------------------------------------
(* Inputs *)

DefaultPort == "7333"
Ports == {"7333", "9222"}
NoPort == ""   \* `port` omitted (or empty: both are falsy at line 27)

\* coordinate strings, as sequences of characters
CoordInputs ==
    { <<"1", ",", "2">>, <<"2", ",", "1">>, <<"a">>, <<"1", ",">> }

ActionOps == {"navigateToUrl", "click", "type", "scrollDown", "scrollUp"}

\* the events the browser delivers: console messages of type "log" and page
\* errors (a console message of another type differs only in its line's prefix)
ConsoleTypes == {"log"}
Events ==
    [src : {"console"}, type : ConsoleTypes, text : {"m"}]
        \cup [src : {"pageerror"}, type : {"error"}, text : {"m"}]

----------------------------------------------------------------------------
(* Values *)

\* a handle: how it was obtained, whether its connection is open, whether the
\* process it launched runs
NoBrowser == [how |-> "none", connected |-> FALSE, alive |-> FALSE]
LaunchedBrowser == [how |-> "launched", connected |-> TRUE, alive |-> TRUE]
AttachedBrowser == [how |-> "attached", connected |-> TRUE, alive |-> FALSE]

\* a page: whether the field is set, whether the page still answers, and the
\* listener pairs on the page object: `listening` is the pair of the doAction
\* call in flight, `leftover` says that pairs of ended calls are still registered
NoPage == [set |-> FALSE, live |-> FALSE, listening |-> FALSE, leftover |-> FALSE]
NewPage == [set |-> TRUE, live |-> TRUE, listening |-> FALSE, leftover |-> FALSE]

\* a call: its operation and argument, and as history what the browser
\* answered to it
NoCall == [op |-> "none", arg |-> <<>>, note |-> ""]
Call(op, arg, note) == [op |-> op, arg |-> arg, note |-> note]

\* a result: what was returned, or the error thrown and its message
Returned(shot, lg, pos) ==
    [status |-> "ok", err |-> "", msg |-> <<>>, screenshot |-> shot, logs |-> lg, pos |-> pos]
ThrownWith(e, msg) ==
    [status |-> "error", err |-> e, msg |-> msg, screenshot |-> "", logs |-> <<>>, pos |-> <<>>]
Thrown(e) == ThrownWith(e, <<>>)
NoResult ==
    [status |-> "none", err |-> "", msg |-> <<>>, screenshot |-> "", logs |-> <<>>, pos |-> <<>>]
\* `return {}` (line 88)
EmptyResult == Returned("", <<>>, <<>>)

\* no effect is being stepped through
NoEffect ==
    [pc |-> "idle", op |-> "none", timeout |-> 0, source |-> <<>>,
     reqOn |-> FALSE, net |-> FALSE, navTimedOut |-> FALSE,
     ranStable |-> FALSE, checkCounts |-> 0, lastHTMLSize |-> 0,
     countStableSizeIterations |-> 0, polls |-> 0, stable |-> FALSE,
     thrown |-> "none", raised |-> "none", logged |-> <<>>]

\* no end of doAction is being stepped through
NoTail ==
    [pc |-> "idle", t |-> 0, quiet |-> 0, polled |-> FALSE, events |-> FALSE,
     endedBy |-> "",
     can |-> {}, attempts |-> <<>>, out |-> NoResult]

----------------------------------------------------------------------------
InitSession ==
    /\ browser = NoBrowser
    /\ page = NoPage
    /\ currentMousePosition = <<>>
    /\ isInteractive = FALSE
    /\ browserPort = DefaultPort
    /\ pc = "idle"
    /\ call = NoCall
    /\ logs = <<>>
    /\ result = NoResult
    /\ orphans = 0
    /\ remoteKilled = FALSE
    /\ closedSince = FALSE
    /\ delivered = <<>>

Init ==
    /\ InitSession
    /\ efx = NoEffect
    /\ tail = NoTail

----------------------------------------------------------------------------
(* closeBrowser, lines 79-89 *)

\* browser.disconnect(): the connection is dropped, a launched process keeps running
Disconnect(b) == [b EXCEPT !.connected = FALSE]

\* browser.close(): the browser behind the handle is shut down
Terminate(b) == [b EXCEPT !.connected = FALSE, !.alive = FALSE]

\* lines 81-87: the branch is chosen by the isInteractive field as it is now;
\* `this.browser?.` does nothing when the field is undefined
TeardownHandle(b, inter) ==
    IF b.how = "none" THEN b
    ELSE IF inter THEN Disconnect(b) ELSE Terminate(b)

\* whether a teardown shuts down a remote browser: browser.close() sent over an
\* open connection to an attached browser
TeardownKills(b, inter) == b.how = "attached" /\ b.connected /\ ~inter

\* neither branch assigns this.page; the page object stops answering
TeardownPage(p, b) ==
    IF b.how = "none" THEN p ELSE [p EXCEPT !.live = FALSE]

\* faulty variant: the rejection of disconnect()/close() reaches the caller
CloseOutcomeUncaught(rejected) ==
    IF rejected THEN Thrown("CloseError") ELSE EmptyResult

\* lines 83, 86, 88: `.catch(() => {})`, then `return {}`
CloseOutcome(rejected) == EmptyResult

\* history of a closeBrowser call: whether disconnect()/close() rejected, and
\* whether the call before it was a closeBrowser too
CloseNote(rejected, again) ==
    CASE rejected /\ again -> "rejectedAgain"
      [] rejected /\ ~again -> "rejected"
      [] ~rejected /\ again -> "closedAgain"
      [] OTHER -> "closed"

\* lines 79-89: what the call does to the session
CloseSession(rejected) ==
    /\ pc = "idle"
    /\ rejected => browser.how # "none"
    /\ browser' = TeardownHandle(browser, isInteractive)
    /\ remoteKilled' = (remoteKilled \/ TeardownKills(browser, isInteractive))
    /\ page' = TeardownPage(page, browser)
    /\ call' = Call("closeBrowser", <<>>, CloseNote(rejected, call.op = "closeBrowser"))
    /\ result' = CloseOutcome(rejected)
    /\ closedSince' = TRUE
    /\ UNCHANGED <<currentMousePosition, isInteractive, browserPort, pc, logs,
                   orphans, delivered>>

closeBrowser(rejected) ==
    /\ CloseSession(rejected)
    /\ UNCHANGED <<efx, tail>>

----------------------------------------------------------------------------
(* launchBrowser, lines 22-77 *)

\* lines 27-29
PortAfterLaunch(old, port) == IF port # NoPort THEN port ELSE old

LaunchEnv(interactive) ==
    IF interactive
    THEN {"fetchFails", "noWsUrl", "connectFails", "newPageFails", "ok"}
    ELSE {"launchFails", "newPageFails", "ok"}

\* the handle after lines 35-65: assigned only when connect()/launch() returned
BrowserAfterLaunch(old, interactive, env) ==
    IF env \in {"fetchFails", "noWsUrl", "connectFails", "launchFails"} THEN old
    ELSE IF interactive THEN AttachedBrowser ELSE LaunchedBrowser

\* a process is leaked when the field that held it is overwritten while it runs
Leaked(old, new) ==
    IF new # old /\ old.how = "launched" /\ old.alive THEN 1 ELSE 0

\* line 67: assigned only when newPage() returned
PageAfterLaunch(old, env) == IF env = "ok" THEN NewPage ELSE old

\* the message of the error thrown inside the try block, lines 38-48: fetch's
\* and connect's own, or the one of line 43, which names the port
InnerMessage(env, port) ==
    CASE env = "noWsUrl" ->
            <<"BrowserSession.ts :: launchBrowser :: Could not get webSocketDebuggerUrl from Chrome debugging API, port: ",
              port>>
      [] env = "fetchFails" -> <<"fetch failed">>
      [] OTHER -> <<"connect failed">>

\* the port written into the advice of line 51
AdvisedPort(port) == "7333"

\* line 51
ConnectionMessage(env, port) ==
    <<"BrowserSession.ts :: launchBrowser :: Failed to connect to browser: ">>
        \o InnerMessage(env, port)
        \o <<", make sure you have a running browser with --remote-debugging-port=",
             AdvisedPort(port)>>

\* faulty variant: the launch result reports no cursor position
LaunchOutcomeNoCursor(interactive, env, pos, port) ==
    IF env = "ok" THEN Returned("", <<"Browser launched successfully.">>, <<>>)
    ELSE Thrown("LaunchError")

LaunchOutcome(interactive, env, pos, port) ==
    CASE env \in {"fetchFails", "noWsUrl", "connectFails"} ->
            ThrownWith("ConnectionError", ConnectionMessage(env, port))
      [] env = "launchFails" -> Thrown("LaunchError")
      [] env = "newPageFails" -> Thrown("NewPageError")
      [] OTHER ->
            Returned("",
                     IF interactive
                     THEN <<"Connected to browser in remote debugging mode.">>
                     ELSE <<"Browser launched successfully.">>,
                     pos)

launchBrowser(interactive, port, env) ==
    /\ UNCHANGED <<efx, tail>>
    /\ pc = "idle"
    /\ orphans < MaxOrphans
    /\ env \in LaunchEnv(interactive)
    /\ LET closed == TeardownHandle(browser, interactive)    \* lines 24, 31-33
           new == BrowserAfterLaunch(closed, interactive, env)
       IN /\ isInteractive' = interactive
          /\ browserPort' = PortAfterLaunch(browserPort, port)
          /\ remoteKilled' = (remoteKilled \/ TeardownKills(browser, interactive))
          /\ browser' = new
          /\ orphans' = orphans + Leaked(closed, new)
          /\ page' = PageAfterLaunch(TeardownPage(page, browser), env)
    /\ call' = Call("launchBrowser", <<port>>, env)
    /\ result' = LaunchOutcome(interactive, env, currentMousePosition,
                               PortAfterLaunch(browserPort, port))
    /\ closedSince' = (closedSince /\ env # "ok")
    /\ UNCHANGED <<currentMousePosition, pc, logs, delivered>>

----------------------------------------------------------------------------
(* click's argument, line 215: coordinate.split(",").map(Number) *)

Digits == <<"0", "1", "2", "3", "4", "5", "6", "7", "8", "9">>
IsDigit(c) == \E i \in 1..10 : Digits[i] = c
DigitVal(c) == (CHOOSE i \in 1..10 : Digits[i] = c) - 1

\* String.prototype.split(","): the pieces between the commas, "" included
RECURSIVE SplitFrom(_, _, _)
SplitFrom(s, i, piece) ==
    IF i > Len(s) THEN <<piece>>
    ELSE IF s[i] = "," THEN <<piece>> \o SplitFrom(s, i + 1, <<>>)
    ELSE SplitFrom(s, i + 1, Append(piece, s[i]))
Split(s) == SplitFrom(s, 1, <<>>)

RECURSIVE Decimal(_, _)
Decimal(piece, n) ==
    IF n = 0 THEN 0 ELSE 10 * Decimal(piece, n - 1) + DigitVal(piece[n])

\* Number(piece): "" is 0, a run of digits is its value, anything else is NaN
ToNumber(piece) ==
    IF \A i \in 1..Len(piece) : IsDigit(piece[i])
    THEN [kind |-> "number", val |-> Decimal(piece, Len(piece))]
    ELSE [kind |-> "NaN", val |-> 0]

Undefined == [kind |-> "undefined", val |-> 0]

\* const [x, y] = ...: the first two elements, undefined where there is none
ParseCoordinate(coordinate) ==
    LET nums == [i \in 1..Len(Split(coordinate)) |-> ToNumber(Split(coordinate)[i])]
    IN [x |-> IF Len(nums) >= 1 THEN nums[1] ELSE Undefined,
        y |-> IF Len(nums) >= 2 THEN nums[2] ELSE Undefined]

----------------------------------------------------------------------------
(* doAction, lines 118-175 *)

\* faulty variant: the guard of line 120 is missing
HasPageUnchecked(p) == TRUE

\* line 120: `!this.page` looks at the field alone
HasPage(p) == p.set

\* faulty variant: a line equal to one already logged is dropped
PushOnce(lg, line) ==
    IF \E i \in 1..Len(lg) : lg[i] = line THEN lg ELSE Append(lg, line)

\* logs.push(line), lines 131, 133, 139, 151
Push(lg, line) == Append(lg, line)

\* consoleListener, lines 129-136
ConsoleLine(msg) ==
    IF msg.type = "log" THEN <<msg.text>> ELSE <<"[", msg.type, "] ", msg.text>>

\* errorListener, lines 138-141
PageErrorLine(err) == <<"[Page Error] ", err.text>>

ListenerLine(ev) ==
    IF ev.src = "console" THEN ConsoleLine(ev) ELSE PageErrorLine(ev)

\* line 151
EffectErrorLine(text) == <<"[Error] ", text>>

\* logs.join("\n"), line 171
RECURSIVE JoinLines(_)
JoinLines(lg) ==
    IF Len(lg) = 0 THEN <<>>
    ELSE IF Len(lg) = 1 THEN lg[1]
    ELSE lg[1] \o <<"\n">> \o JoinLines(Tail(lg))

EventCount(d) == Cardinality({i \in 1..Len(d) : d[i].src # "effect"})

\* lines 118-145: the guard, then the fresh log and the two listeners
BeginAction(op, arg) ==
    /\ UNCHANGED <<efx, tail>>
    /\ pc = "idle"
    /\ IF ~HasPage(page)
       THEN /\ result' = Thrown("NoActivePage")
            /\ call' = Call(op, arg, "")
            /\ UNCHANGED <<page, pc, logs, delivered>>
       ELSE /\ result' = NoResult
            /\ call' = Call(op, arg, "")
            /\ page' = [page EXCEPT !.listening = TRUE]       \* lines 144-145
            /\ pc' = "effect"
            /\ logs' = <<>>
            /\ delivered' = <<>>
    /\ UNCHANGED <<browser, currentMousePosition, isInteractive, browserPort,
                   orphans, remoteKilled, closedSince>>

\* the browser fires a console or pageerror event while the listeners of the
\* call in flight are registered (events that reach only listeners left behind
\* by an earlier call are pushed to that call's array, which nothing reads)
DeliverEvent(ev) ==
    /\ UNCHANGED <<efx, tail>>
    /\ pc \in {"effect", "wait", "shot"}
    /\ page.live
    /\ EventCount(delivered) < MaxEvents
    /\ logs' = Push(logs, ListenerLine(ev))
    /\ delivered' = Append(delivered, ev)
    /\ UNCHANGED <<browser, page, currentMousePosition, isInteractive, browserPort,
                   pc, call, result, orphans, remoteKilled, closedSince>>

----------------------------------------------------------------------------
(* the effects, lines 177-182 and 214-275 *)

\* whether Input.dispatchMouseEvent accepts the point: both members are numbers
Dispatchable(pt) == pt.x.kind = "number" /\ pt.y.kind = "number"

\* what the browser can answer to an effect
\*   any:   "gone"   the page no longer answers, the first protocol call threw
\*   click: "raise"  mouse.click threw (line 225)
\*          "miss", "hit"   it returned, no request was seen within 100ms
\*          "hitNav"        requests seen, the navigation completed
\*          "hitNavTimeout" requests seen, waitForNavigation timed out
\*          "hitStabRaise"  requests seen, page.content() threw in waitTillHTMLStable
EffectEnv(op, arg, live) ==
    CASE op = "click" ->
            IF live /\ Dispatchable(ParseCoordinate(arg))
            THEN {"raise", "miss", "hit", "hitNav", "hitNavTimeout", "hitStabRaise"}
            ELSE IF live THEN {"raise"} ELSE {"gone"}
      [] op = "navigateToUrl" ->
            IF live THEN {"ok", "timeout", "error"} ELSE {"gone"}
      [] OTHER ->
            IF live THEN {"ok", "error"} ELSE {"gone"}

\* what the effect throws: goto's timeout is a TimeoutError (line 179), the
\* timeout of waitForNavigation is caught inside click (line 238)
EffectThrows(op, env) ==
    CASE env \in {"gone", "raise", "hitStabRaise", "error"} -> "Error"
      [] env = "timeout" -> "TimeoutError"
      [] OTHER -> "none"

\* faulty variant: the position is stored only when the click landed on an element
CursorOnlyOnHit(pos, coordinate, env) ==
    IF env \in {"hit", "hitNav", "hitNavTimeout", "hitStabRaise"} THEN <<coordinate>> ELSE pos

\* lines 225-226: the assignment follows the awaited mouse.click
CursorAfterClick(pos, coordinate, env) ==
    IF env \notin {"gone", "raise"} THEN <<coordinate>> ELSE pos

\* faulty variant: the catch block rethrows what it does not swallow
RethrowEffectError(err) == IF err = "Error" THEN "Error" ELSE "none"

\* lines 147-153: what leaves the try statement
UncaughtEffectError(err) == "none"

\* faulty variant: the catch block logs a timeout like any other error
LogsAfterEffectAll(lg, err) ==
    IF err # "none" THEN Push(lg, EffectErrorLine("e")) ELSE lg

\* lines 149-152: what the catch block logs
LogsAfterEffect(lg, err) ==
    IF err = "Error" THEN Push(lg, EffectErrorLine("e")) ELSE lg

RunEffect(env) ==
    /\ UNCHANGED <<efx, tail>>
    /\ pc = "effect"
    /\ env \in EffectEnv(call.op, call.arg, page.live)
    /\ call' = [call EXCEPT !.note = env]
    /\ currentMousePosition' =
           IF call.op = "click"
           THEN CursorAfterClick(currentMousePosition, call.arg, env)
           ELSE currentMousePosition
    /\ LET err == EffectThrows(call.op, env)
       IN IF UncaughtEffectError(err) # "none"
          THEN /\ result' = Thrown("EffectError")
               /\ pc' = "idle"
               /\ logs' = <<>>
               /\ page' = [page EXCEPT !.listening = FALSE, !.leftover = TRUE]
               /\ UNCHANGED delivered
          ELSE /\ logs' = LogsAfterEffect(logs, err)
               /\ delivered' =
                      IF err = "Error"
                      THEN Append(delivered, [src |-> "effect", type |-> "error", text |-> "e"])
                      ELSE delivered
               /\ pc' = "wait"
               /\ UNCHANGED <<result, page>>
    /\ UNCHANGED <<browser, isInteractive, browserPort, orphans, remoteKilled,
                   closedSince>>

\* lines 155-159: pWaitFor ends by its condition or by its timeout, whose
\* rejection is caught
Quiesce ==
    /\ UNCHANGED <<efx, tail>>
    /\ pc = "wait"
    /\ pc' = "shot"
    /\ UNCHANGED <<browser, page, currentMousePosition, isInteractive, browserPort,
                   call, logs, result, orphans, remoteKilled, closedSince, delivered>>

----------------------------------------------------------------------------
(* getCurrentScreenshot, lines 91-116, and the end of doAction, lines 161-174 *)

\* which capture the browser lets through: "webp" the first, "png" only the
\* second, "none" neither
ShotEnv(live) == IF live THEN {"webp", "png", "none"} ELSE {"none"}

\* the data URI's prefix, "" for undefined
getCurrentScreenshot(p, env) ==
    IF ~p.set THEN ""
    ELSE CASE env = "webp" -> "data:image/webp;base64,"
           [] env = "png" -> "data:image/png;base64,"
           [] OTHER -> ""

\* faulty variant: a failed capture drops the page
PageDroppedAfterFailedShot(p) == NoPage

\* lines 162-164: the throw leaves the field as it is and skips lines 166-167
PageAfterFailedShot(p) == [p EXCEPT !.listening = FALSE, !.leftover = TRUE]

FinishAction(env) ==
    /\ UNCHANGED <<efx, tail>>
    /\ pc = "shot"
    /\ env \in ShotEnv(page.live)
    /\ LET screenshot == getCurrentScreenshot(page, env)
       IN IF screenshot = ""
          THEN /\ result' = Thrown("ScreenshotFailed")     \* lines 162-164
               /\ delivered' = <<>>
               /\ page' = PageAfterFailedShot(page)
          ELSE /\ page' = [page EXCEPT !.listening = FALSE]  \* lines 166-167
               /\ result' = Returned(screenshot, JoinLines(logs), currentMousePosition)
               /\ UNCHANGED delivered
    /\ pc' = "idle"
    /\ logs' = <<>>
    /\ UNCHANGED <<browser, currentMousePosition, isInteractive, browserPort, call,
                   orphans, remoteKilled, closedSince>>

----------------------------------------------------------------------------
Next ==
    \/ \E interactive \in BOOLEAN, port \in Ports \cup {NoPort},
          env \in LaunchEnv(TRUE) \cup LaunchEnv(FALSE) :
            launchBrowser(interactive, port, env)
    \/ \E rejected \in BOOLEAN : closeBrowser(rejected)
    \/ \E op \in ActionOps \ {"click"} : BeginAction(op, <<>>)
    \/ \E coordinate \in CoordInputs : BeginAction("click", coordinate)
    \/ \E ev \in Events : DeliverEvent(ev)
    \/ \E env \in {"gone", "raise", "miss", "hit", "hitNav", "hitNavTimeout", "hitStabRaise",
                   "ok", "timeout", "error"} : RunEffect(env)
    \/ Quiesce
    \/ \E env \in {"webp", "png", "none"} : FinishAction(env)

Spec == Init /\ [][Next]_vars

----------------------------------------------------------------------------
(* An effect step by step: navigateToUrl, lines 177-182, click, lines      *)
(* 214-245, waitTillHTMLStable, lines 184-212, and the try statement of    *)
(* doAction around them, lines 146-153.  The page answers page.content()   *)
(* with the lengths of `source`, read round-robin, one per poll.           *)

\* bound: the longest sequence of content lengths a page is given
MaxSource == 5

Lengths == {0, 100, 250, 400}
Sources == UNION {[1..n -> Lengths] : n \in 1..MaxSource}

\* line 184: timeout = 5_000
DefaultStableTimeout == 5000
StableTimeouts == {2000, DefaultStableTimeout}

\* line 185
CheckDurationMsecs == 500
\* line 190
MinStableSizeIterations == 3

\* line 186
MaxChecks(timeout) == timeout \div CheckDurationMsecs

\* lines 193-194: html.length at the i-th poll
LengthAt(source, i) == source[((i - 1) % Len(source)) + 1]

\* faulty variant: an empty document counts as unchanged too
NextStableCountAnyLength(count, last, cur) == IF cur = last THEN count + 1 ELSE 0

\* lines 198-202
NextStableCount(count, last, cur) ==
    IF last # 0 /\ cur = last THEN count + 1 ELSE 0

\* faulty variant: two unchanged polls are enough
ReachedStableEarly(count) == count >= 2

\* line 204
ReachedStable(count) == count >= MinStableSizeIterations

\* lines 147-153: the effect is over, by returning (err = "none") or by throwing
EndEffect(e, err) ==
    [e EXCEPT !.pc = "done", !.thrown = err,
              !.raised = UncaughtEffectError(err),
              !.logged = LogsAfterEffect(<<>>, err)]

\* lines 185-190: waitTillHTMLStable is entered
EnterStable(e) ==
    [e EXCEPT !.pc = "stable", !.ranStable = TRUE, !.checkCounts = 1,
              !.lastHTMLSize = 0, !.countStableSizeIterations = 0]

\* waitTillHTMLStable returns: to line 243 in click, to the end of the
\* effect in navigateToUrl
LeaveStable(e) ==
    IF e.op = "click" THEN [e EXCEPT !.pc = "off"] ELSE EndEffect(e, "none")

EffectInit ==
    /\ InitSession
    /\ tail = NoTail
    /\ \E source \in Sources, timeout \in StableTimeouts :
           efx = [NoEffect EXCEPT !.source = source, !.timeout = timeout]

\* line 178, and lines 216-222 where click registers its request listener
StartEffect(op) ==
    /\ efx.pc = "idle"
    /\ efx' = [efx EXCEPT !.op = op,
                          !.pc = IF op = "click" THEN "mouse" ELSE "goto",
                          !.reqOn = (op = "click")]
    /\ UNCHANGED <<session, tail>>

\* line 179: page.goto with its 7 s timeout
Goto(outcome) ==
    /\ efx.pc = "goto"
    /\ efx' = CASE outcome = "ok" -> EnterStable(efx)
                [] outcome = "timeout" ->
                       EndEffect([efx EXCEPT !.navTimedOut = TRUE], "TimeoutError")
                [] OTHER -> EndEffect(efx, "Error")
    /\ UNCHANGED <<session, tail>>

\* line 225: page.mouse.click
MouseClick(outcome) ==
    /\ efx.pc = "mouse"
    /\ efx' = IF outcome = "ok" THEN [efx EXCEPT !.pc = "delay"]
              ELSE EndEffect(efx, "Error")
    /\ UNCHANGED <<session, tail>>

\* lines 229-231: after 100 ms, did the request listener see a request?
Delay(hasNetworkActivity) ==
    /\ efx.pc = "delay"
    /\ efx' = [efx EXCEPT !.net = hasNetworkActivity,
                          !.pc = IF hasNetworkActivity THEN "nav" ELSE "off"]
    /\ UNCHANGED <<session, tail>>

\* lines 233-239: whatever waitForNavigation rejects with is caught
WaitForNavigation(outcome) ==
    /\ efx.pc = "nav"
    /\ efx' = EnterStable([efx EXCEPT !.navTimedOut = (outcome = "timeout")])
    /\ UNCHANGED <<session, tail>>

\* lines 192-210: one turn of the loop
StablePoll(content) ==
    /\ efx.pc = "stable"
    /\ efx.checkCounts <= MaxChecks(efx.timeout)
    /\ LET polled == [efx EXCEPT !.checkCounts = efx.checkCounts + 1,
                                 !.polls = efx.polls + 1]
           cur == LengthAt(efx.source, efx.polls + 1)
           count == NextStableCount(efx.countStableSizeIterations,
                                    efx.lastHTMLSize, cur)
       IN efx' = IF content = "raise" THEN EndEffect(polled, "Error")
                 ELSE IF ReachedStable(count)
                      THEN LeaveStable([polled EXCEPT !.countStableSizeIterations = count,
                                                      !.stable = TRUE])
                      ELSE [polled EXCEPT !.countStableSizeIterations = count,
                                          !.lastHTMLSize = cur]
    /\ UNCHANGED <<session, tail>>

\* line 192: the condition of the loop is false
StableTimeout ==
    /\ efx.pc = "stable"
    /\ efx.checkCounts > MaxChecks(efx.timeout)
    /\ efx' = LeaveStable([efx EXCEPT !.checkCounts = efx.checkCounts + 1])
    /\ UNCHANGED <<session, tail>>

\* line 243
RemoveRequestListener ==
    /\ efx.pc = "off"
    /\ efx' = EndEffect([efx EXCEPT !.reqOn = FALSE], "none")
    /\ UNCHANGED <<session, tail>>

EffectNext ==
    \/ \E op \in {"navigateToUrl", "click"} : StartEffect(op)
    \/ \E outcome \in {"ok", "timeout", "error"} : Goto(outcome)
    \/ \E outcome \in {"ok", "raise"} : MouseClick(outcome)
    \/ \E hasNetworkActivity \in BOOLEAN : Delay(hasNetworkActivity)
    \/ \E outcome \in {"ok", "timeout", "error"} : WaitForNavigation(outcome)
    \/ \E content \in {"ok", "raise"} : StablePoll(content)
    \/ StableTimeout
    \/ RemoveRequestListener

EffectSpec == EffectInit /\ [][EffectNext]_vars

----------------------------------------------------------------------------
(* The end of doAction step by step: the wait for console inactivity,      *)
(* lines 155-159, and getCurrentScreenshot, lines 91-116, with the throw   *)
(* of lines 161-164.  Time advances by the polling interval; `quiet` is    *)
(* Date.now() - lastLogTs, kept up to QuietMs.                             *)

\* line 156: Date.now() - lastLogTs >= 500
QuietMs == 500
\* line 157: timeout: 3_000
WaitTimeoutMs == 3000
\* line 158: interval: 100
WaitIntervalMs == 100

\* the formats the page object may be able to capture
Formats == {"webp", "png"}

\* faulty variant: the condition of the wait never holds
QuietNever(quiet) == FALSE

\* line 156: the condition pWaitFor polls
QuietEnough(quiet) == quiet >= QuietMs

\* faulty variant: the lossless format is tried first
CaptureOrderPngFirst == <<"png", "webp">>

\* lines 101 and 108: the type of the first and of the second page.screenshot
CaptureOrder == <<"webp", "png">>

\* lines 103 and 110
DataUri(format) ==
    IF format = "webp" THEN "data:image/webp;base64," ELSE "data:image/png;base64,"

\* lastLogTs is set at line 127, before the effect: the wait may begin with
\* any time already gone by
TailInit ==
    /\ InitSession
    /\ efx = NoEffect
    /\ \E quiet \in {n * WaitIntervalMs : n \in 0..(QuietMs \div WaitIntervalMs)},
          can \in SUBSET Formats :
           tail = [NoTail EXCEPT !.pc = "wait", !.quiet = quiet, !.can = can]

\* pWaitFor calls the condition at once and then every `interval`
WaitPoll ==
    /\ tail.pc = "wait"
    /\ ~tail.polled
    /\ tail' = IF QuietEnough(tail.quiet)
               THEN [tail EXCEPT !.pc = "shot", !.endedBy = "quiet"]
               ELSE [tail EXCEPT !.polled = TRUE]
    /\ UNCHANGED <<session, efx>>

\* the interval timer of pWaitFor
WaitTick ==
    /\ tail.pc = "wait"
    /\ tail.polled
    /\ tail.t < WaitTimeoutMs
    /\ tail' = [tail EXCEPT !.t = tail.t + WaitIntervalMs,
                            !.quiet = IF tail.quiet + WaitIntervalMs > QuietMs
                                      THEN QuietMs ELSE tail.quiet + WaitIntervalMs,
                            !.polled = FALSE]
    /\ UNCHANGED <<session, efx>>

\* lines 135 and 140: a listener sets lastLogTs
WaitEvent ==
    /\ tail.pc = "wait"
    /\ tail' = [tail EXCEPT !.quiet = 0, !.events = TRUE]
    /\ UNCHANGED <<session, efx>>

\* lines 157 and 159: the timeout rejects and the rejection is caught
WaitTimeout ==
    /\ tail.pc = "wait"
    /\ tail.t >= WaitTimeoutMs
    /\ tail' = [tail EXCEPT !.pc = "shot", !.endedBy = "timeout"]
    /\ UNCHANGED <<session, efx>>

\* lines 100-113 and 161-164: one page.screenshot call
TryCapture ==
    /\ tail.pc = "shot"
    /\ LET format == CaptureOrder[Len(tail.attempts) + 1]
           tried == [tail EXCEPT !.attempts = Append(tail.attempts, format)]
       IN tail' = IF format \in tail.can
                  THEN [tried EXCEPT !.pc = "done",
                                     !.out = Returned(DataUri(format), <<>>, <<>>)]
                  ELSE IF Len(tried.attempts) = Len(CaptureOrder)
                       THEN [tried EXCEPT !.pc = "done",
                                          !.out = Thrown("ScreenshotFailed")]
                       ELSE tried
    /\ UNCHANGED <<session, efx>>

\* the timers and the awaited captures
TailClock == WaitPoll \/ WaitTick \/ WaitTimeout \/ TryCapture

TailNext ==
    \/ WaitPoll
    \/ WaitTick
    \/ WaitEvent
    \/ WaitTimeout
    \/ TryCapture

\* a timer that is due fires and an awaited capture settles; the page is
\* free to log or not
TailSpec == TailInit /\ [][TailNext]_vars /\ WF_vars(TailClock)

----------------------------------------------------------------------------
(* closeBrowser called while a doAction is in flight: the effect and the   *)
(* end of doAction are stepped through as above on a session that was      *)
(* launched, and closeBrowser, lines 79-89, may run between any two of     *)
(* their awaits.  Once the connection is gone a page operation can only    *)
(* reject.                                                                 *)

\* the pages an action in flight is given
InFlightSources == {<<250>>, <<100, 250>>}

\* faulty variant: a page operation on a closed session never settles
SettlesOnlyWhenOpen(live, outcomes, failing) == IF live THEN outcomes ELSE {}

\* how an awaited page operation (lines 179, 225, 233, 193, 99, 106) may settle
Settles(live, outcomes, failing) == IF live THEN outcomes ELSE failing

\* the session after a launchBrowser that returned (lines 22-76) and the
\* start of a doAction on it (lines 120-145)
InFlightInit ==
    /\ \E interactive \in BOOLEAN :
          /\ isInteractive = interactive
          /\ browser = BrowserAfterLaunch(NoBrowser, interactive, "ok")
    /\ page = [PageAfterLaunch(NoPage, "ok") EXCEPT !.listening = TRUE]
    /\ currentMousePosition = <<>>
    /\ browserPort = DefaultPort
    /\ pc = "idle"
    /\ call = NoCall
    /\ logs = <<>>
    /\ result = NoResult
    /\ orphans = 0
    /\ remoteKilled = FALSE
    /\ closedSince = FALSE
    /\ delivered = <<>>
    /\ tail = NoTail
    /\ \E source \in InFlightSources :
           efx = [NoEffect EXCEPT !.source = source, !.timeout = DefaultStableTimeout]

\* lines 79-89, between two awaits of the action in flight
CloseInFlight(rejected) ==
    /\ efx.pc # "idle"
    /\ tail.pc # "done"
    /\ CloseSession(rejected)
    /\ tail' = [tail EXCEPT !.can = {}]
    /\ UNCHANGED efx

\* lines 155-156: the effect is over and pWaitFor begins
BeginWait ==
    /\ efx.pc = "done"
    /\ tail.pc = "idle"
    /\ \E quiet \in {0, QuietMs},
          can \in IF page.live THEN SUBSET Formats ELSE {{}} :
           tail' = [NoTail EXCEPT !.pc = "wait", !.quiet = quiet, !.can = can]
    /\ UNCHANGED <<session, efx>>

\* the awaits of the action in flight
InFlightClock ==
    \/ \E op \in {"navigateToUrl", "click"} : StartEffect(op)
    \/ \E outcome \in Settles(page.live, {"ok", "timeout", "error"}, {"error"}) :
           Goto(outcome)
    \/ \E outcome \in Settles(page.live, {"ok", "raise"}, {"raise"}) :
           MouseClick(outcome)
    \/ \E hasNetworkActivity \in BOOLEAN : Delay(hasNetworkActivity)
    \/ \E outcome \in Settles(page.live, {"ok", "timeout", "error"}, {"error"}) :
           WaitForNavigation(outcome)
    \/ \E content \in Settles(page.live, {"ok", "raise"}, {"raise"}) :
           StablePoll(content)
    \/ StableTimeout
    \/ RemoveRequestListener
    \/ BeginWait
    \/ TailClock

InFlightNext ==
    \/ InFlightClock
    \/ \E rejected \in BOOLEAN : CloseInFlight(rejected)
    \/ (page.live /\ WaitEvent)

\* an awaited operation settles and a timer that is due fires; nobody has to
\* call closeBrowser and the page is free to log or not
InFlightSpec == InFlightInit /\ [][InFlightNext]_vars /\ WF_vars(InFlightClock)

----------------------------------------------------------------------------
(* Vocabulary of the properties *)

\* live browser processes the session launched
LiveProcesses == orphans + (IF browser.alive THEN 1 ELSE 0)

\* live browser processes launched before the launchBrowser call that ended last
EarlierProcesses ==
    orphans + (IF browser.alive /\ (isInteractive \/ call.note \notin {"ok", "newPageFails"})
               THEN 1 ELSE 0)

\* a coordinate that is two comma-separated integers
IsInteger(piece) == Len(piece) >= 1 /\ \A i \in 1..Len(piece) : IsDigit(piece[i])
ValidCoordinate(c) ==
    Len(Split(c)) = 2 /\ IsInteger(Split(c)[1]) /\ IsInteger(Split(c)[2])

ActionCall == call.op \in ActionOps
ActionReturned == ActionCall /\ pc = "idle" /\ result.status = "ok"
ActionFailed == ActionCall /\ pc = "idle" /\ result.status = "error"

\* the line the log is to hold for one entry of the history
ExpectedLine(d) ==
    CASE d.src = "effect" -> <<"[Error] ", d.text>>
      [] d.src = "pageerror" -> <<"[Page Error] ", d.text>>
      [] d.type = "log" -> <<d.text>>
      [] OTHER -> <<"[", d.type, "] ", d.text>>
ExpectedLines(ds) == [i \in 1..Len(ds) |-> ExpectedLine(ds[i])]

Occurrences(seq, x) == Cardinality({i \in 1..Len(seq) : seq[i] = x})

\* what the stability counter of the claim is after n polls of a source: the
\* number of polls in a row, ending with the n-th, that returned a non-zero
\* length equal to the length of the poll before
RECURSIVE UnchangedRun(_, _)
UnchangedRun(source, n) ==
    IF n < 2 THEN 0
    ELSE IF LengthAt(source, n) # 0 /\ LengthAt(source, n) = LengthAt(source, n - 1)
         THEN UnchangedRun(source, n - 1) + 1
         ELSE 0

\* a source whose length is zero or differs from the one before at every poll
NeverSettles(source) ==
    \A i \in 1..Len(source) :
        source[i] = 0 \/ source[i] # source[(i % Len(source)) + 1]

\* waitTillHTMLStable has returned
AfterStable == efx.ranStable /\ efx.pc \in {"off", "done"} /\ efx.thrown = "none"


----------------------------------------------------------------------------
(* Properties *)

\* C1: no teardown, explicit or by a re-launch in either mode, terminates a
\* remote browser the session was attached to.
C1_RemoteNeverTerminated == ~remoteKilled

\* C2: a launch closes the prior session first: after a launchBrowser call ended
\* no process launched earlier runs, and at no time does the session have more
\* than one live process.
C2_PriorSessionClosed ==
    /\ LiveProcesses <= 1
    /\ (call.op = "launchBrowser") => EarlierProcesses = 0

\* C3: an action issued after closeBrowser returned, with no successful launch
\* in between, fails with NoActivePage.
C3_NoPageAfterClose ==
    (closedSince /\ ActionCall) => (pc = "idle" /\ result = Thrown("NoActivePage"))

C5_CloseNeverFails == (call.op = "closeBrowser") => result = EmptyResult

C5_Witness ==
    /\ call.op = "closeBrowser" /\ call.note = "rejectedAgain"
    /\ result = EmptyResult /\ browser.how = "attached"

C7_InvalidCoordinateFails ==
    (call.op = "click" /\ ~ValidCoordinate(call.arg) /\ page.set)
        => (pc = "idle" /\ result = Thrown("InvalidCoordinate"))

\* C8: while no doAction call is in flight no console or pageerror listener of
\* the controller is registered on the page.
C8_NoListenerOutsideExecute ==
    (pc = "idle") => (~page.listening /\ ~page.leftover)

\* C9: the log is, line for line and in order, what was delivered while the
\* call's listeners were registered plus the line of the effect's error where it
\* happened, at most one such line; nothing else, nothing twice, nothing lost.
C9_LogIsWhatWasDelivered ==
    /\ Occurrences(delivered, [src |-> "effect", type |-> "error", text |-> "e"]) <= 1
    /\ (pc # "idle") => logs = ExpectedLines(delivered)
    /\ ActionReturned => result.logs = JoinLines(ExpectedLines(delivered))

C9_Witness ==
    /\ ActionReturned
    /\ delivered = << [src |-> "pageerror", type |-> "error", text |-> "m"],
                      [src |-> "effect", type |-> "error", text |-> "e"],
                      [src |-> "console", type |-> "log", text |-> "m"] >>
    /\ result.logs = <<"[Page Error] ", "m", "\n", "[Error] ", "e", "\n", "m">>

\* C10: an effect's error that is no timeout never leaves doAction: it is one
\* "[Error]" line of the log and the call goes on to the wait and the capture;
\* doAction raises NoActivePage and ScreenshotFailed only.
C10_EffectErrorDemoted ==
    /\ ActionFailed => result.err \in {"NoActivePage", "ScreenshotFailed"}
    /\ (ActionCall /\ EffectThrows(call.op, call.note) = "Error")
          => /\ pc \in {"wait", "shot", "idle"}
             /\ (pc # "idle") => Occurrences(logs, <<"[Error] ", "e">>) = 1
             /\ (pc = "idle") =>
                   \/ result = Thrown("ScreenshotFailed")
                   \/ /\ result.status = "ok"
                      /\ result.screenshot # ""
                      /\ Occurrences(result.logs, "[Error] ") = 1

C10_Witness ==
    /\ ActionReturned /\ call.op = "type" /\ call.note = "error"
    /\ result.logs = <<"[Error] ", "e">>
    /\ result.screenshot = "data:image/png;base64,"

\* C14: a doAction call that fails with ScreenshotFailed leaves the browser
\* handle, the page and the mode as they were, and a later call on the same
\* page whose capture succeeds returns a result.
C14_ScreenshotFailedKeepsSession ==
    [][ /\ (pc = "shot" /\ pc' = "idle" /\ result'.status = "error")
            => /\ result' = Thrown("ScreenshotFailed")
               /\ UNCHANGED <<browser, isInteractive, browserPort, currentMousePosition>>
               /\ page'.set = page.set /\ page'.live = page.live
        /\ (page.leftover /\ (FinishAction("webp") \/ FinishAction("png")))
            => (result'.status = "ok" /\ result'.screenshot # "") ]_vars

C14_Witness ==
    /\ ActionReturned /\ page.leftover /\ page.live
    /\ result.screenshot = "data:image/webp;base64,"

\* C15: an attach-mode launch whose metadata fetch fails or whose metadata has
\* no control URL fails with ConnectionError, its message names the port of the
\* launch and advises to start a debuggable browser on that port, and the launch
\* installs no handle and no page.
C15_ConnectionErrorNamesPort ==
    (call.op = "launchBrowser" /\ isInteractive /\ call.note \in {"fetchFails", "noWsUrl"})
        => /\ result.err = "ConnectionError"
           /\ result.msg[Len(result.msg)] = browserPort
           /\ Occurrences(result.msg, browserPort) >= 1
           /\ ~browser.connected /\ ~page.live

\* C16: the stored cursor position is undefined at first and only a click
\* changes it, to the click's coordinate; and the result of a launch or of an
\* action carries the stored position.
C16_CursorOnlyByClick ==
    /\ currentMousePosition = <<>>
    /\ [][ (currentMousePosition' # currentMousePosition)
             => (call.op = "click" /\ pc = "effect"
                   /\ currentMousePosition' = <<call.arg>>) ]_vars
    /\ []((result.status = "ok" /\ call.op # "closeBrowser")
             => result.pos = currentMousePosition)

C16_Witness ==
    /\ call.op = "launchBrowser" /\ result.status = "ok"
    /\ result.pos = << <<"1", ",", "2">> >>
    /\ closedSince = FALSE

\* C20: an attach-mode launch called without a port fetches from the default
\* port, whatever earlier launches were given.
C20_DefaultPortWhenOmitted ==
    (call.op = "launchBrowser" /\ isInteractive /\ call.arg = <<NoPort>>)
        => browserPort = DefaultPort

\* C17: the stabilization counter counts the polls in a row whose length is
\* non-zero and equal to the previous poll's; polling stops at the first poll
\* where it reaches 3 and otherwise after exactly timeout/500 polls (10 by
\* default), so it never polls more; a source that changes at every poll or
\* is always zero is never declared stable, and neither is
\* [100, 250, 250, 250, 400] at any poll.
C17_StabilizationCounter ==
    /\ efx.polls <= efx.timeout \div 500
    /\ (efx.pc = "stable" \/ AfterStable) =>
           /\ efx.countStableSizeIterations = UnchangedRun(efx.source, efx.polls)
           /\ \A k \in 1..(efx.polls - 1) : UnchangedRun(efx.source, k) < 3
           /\ efx.stable <=> (UnchangedRun(efx.source, efx.polls) = 3)
           /\ (efx.pc = "stable") => ~efx.stable
    /\ (AfterStable /\ ~efx.stable) =>
           /\ efx.polls = efx.timeout \div 500
           /\ (efx.timeout = 5000) => (efx.polls = 10)
    /\ NeverSettles(efx.source) => ~efx.stable
    /\ (efx.source = <<100, 250, 250, 250, 400>>) => ~efx.stable

C17_Witness ==
    /\ AfterStable /\ efx.pc = "done"
    /\ efx.source = <<100, 250, 250, 250, 400>>
    /\ efx.timeout = 5000 /\ efx.polls = 10 /\ ~efx.stable

\* C18 as stated: fed 100, 250, 250, 250 with polling ending there, the helper
\* declares the page stable.
C18_ThreeEqualPollsStable ==
    (AfterStable /\ efx.source = <<100, 250, 250, 250>> /\ efx.timeout = 2000)
        => efx.stable

\* C18 amended: fed 100, 250, 250, 250 with polling ending there, the helper
\* returns after its four polls without declaring the page stable; fed
\* 100, 250, 250, 250, 250 under the default timeout it declares the page
\* stable at the fifth poll: four polls in a row with the same non-zero
\* length are needed.
C18_FourEqualPollsStable ==
    /\ (AfterStable /\ efx.source = <<100, 250, 250, 250>> /\ efx.timeout = 2000)
           => (~efx.stable /\ efx.polls = 4)
    /\ (AfterStable /\ efx.source = <<100, 250, 250, 250, 250>> /\ efx.timeout = 5000)
           => (efx.stable /\ efx.polls = 5)

C18_Witness ==
    /\ AfterStable /\ efx.pc = "done"
    /\ efx.source = <<100, 250, 250, 250, 250>> /\ efx.stable

\* C11 as stated: when the navigation step of navigateToUrl or of click times
\* out, nothing leaves the try statement, no "[Error]" line is logged for the
\* timeout, and the stabilization wait has run when the effect is over.
C11_NavTimeoutStillStabilizes ==
    (efx.pc = "done" /\ efx.navTimedOut)
        => /\ efx.raised = "none"
           /\ (efx.thrown # "Error") => (efx.logged = <<>>)
           /\ efx.ranStable

\* C11 amended: a navigation timeout is never a failure and adds no "[Error]"
\* line; in click it is caught on the spot and the stabilization wait runs,
\* in navigateToUrl it ends the effect, so the stabilization wait is skipped
\* and doAction goes straight on to the quiescence wait.
C11_NavTimeoutSwallowed ==
    (efx.pc = "done" /\ efx.navTimedOut)
        => /\ efx.raised = "none"
           /\ (efx.thrown # "Error") => (efx.logged = <<>>)
           /\ (efx.op = "click") => efx.ranStable
           /\ (efx.op = "navigateToUrl")
                  => (~efx.ranStable /\ efx.thrown = "TimeoutError" /\ efx.polls = 0)

C11_Witness ==
    /\ efx.pc = "done" /\ efx.navTimedOut /\ efx.op = "navigateToUrl"
    /\ efx.logged = <<>> /\ efx.raised = "none"

\* C19: when the click effect is over, by returning or by throwing, the
\* request listener it registered is no longer on the page.
C19_RequestListenerRemoved ==
    (efx.pc = "done" /\ efx.op = "click") => ~efx.reqOn

\* C12: the quiescence wait ends at the first poll that finds 500 ms gone by
\* since the last console or page-error event, or 3 s after it began,
\* whichever comes first; the screenshot step is always reached, within
\* 500 ms when no event fires at all and at 3 s when events keep firing.
C12_QuiescenceWaitBounded ==
    /\ [](/\ tail.t <= 3000
          /\ (tail.pc = "wait" /\ tail.polled) => (tail.quiet < 500)
          /\ (tail.endedBy = "quiet") => (tail.quiet >= 500)
          /\ (tail.endedBy = "timeout") => (tail.t = 3000)
          /\ (tail.pc # "wait" /\ ~tail.events)
                 => (tail.endedBy = "quiet" /\ tail.t <= 500))
    /\ <>(tail.pc \in {"shot", "done"})

C12_Witness ==
    tail.pc = "done" /\ tail.endedBy = "timeout" /\ tail.events /\ tail.quiet < 500

\* C13: webp is tried first and png only after webp failed; when both fail
\* the action fails with ScreenshotFailed and carries nothing of a result;
\* otherwise the screenshot is the data URI of the format that succeeded.
C13_ScreenshotFallback ==
    (tail.pc = "done")
        => /\ ("webp" \in tail.can)
                  => /\ tail.attempts = <<"webp">>
                     /\ tail.out.status = "ok"
                     /\ tail.out.screenshot = "data:image/webp;base64,"
           /\ ("webp" \notin tail.can /\ "png" \in tail.can)
                  => /\ tail.attempts = <<"webp", "png">>
                     /\ tail.out.status = "ok"
                     /\ tail.out.screenshot = "data:image/png;base64,"
           /\ (tail.can = {})
                  => /\ tail.attempts = <<"webp", "png">>
                     /\ tail.out = Thrown("ScreenshotFailed")
                     /\ tail.out.screenshot = "" /\ tail.out.logs = <<>>
                     /\ tail.out.pos = <<>>

C13_Witness ==
    /\ tail.pc = "done" /\ tail.can = {"png"}
    /\ tail.attempts = <<"webp", "png">>
    /\ tail.out.screenshot = "data:image/png;base64,"

\* C21: closeBrowser called while a doAction is in flight returns the empty
\* result without error, and the doAction does not hang: its two polling
\* loops stay within their bounds and it always ends, with a result or with
\* a failure; after the close its page operations only fail.
C21_CloseInFlightSafe ==
    /\ []((call.op = "closeBrowser") => (result = EmptyResult))
    /\ [](efx.polls <= 10 /\ tail.t <= 3000)
    /\ []((tail.pc = "done") => (tail.out.status \in {"ok", "error"}))
    /\ []((tail.pc = "done" /\ ~page.live) => (tail.out = Thrown("ScreenshotFailed")))
    /\ ((call.op = "closeBrowser") ~> (tail.pc = "done"))
    /\ <>(tail.pc = "done")

C21_Witness ==
    /\ call.op = "closeBrowser" /\ result = EmptyResult /\ ~page.live
    /\ efx.ranStable /\ efx.thrown = "Error" /\ efx.polls \in 2..9
    /\ tail.pc = "done" /\ tail.out = Thrown("ScreenshotFailed")

====
